---- MODULE Spec2Model ----
(***************************************************************************)
(* A model of LPSolver (src/LPSolver.cpp): the packed index mapping        *)
(* (getLPVar / getQPVars), the minimal non-PSD core search (nonPSDcore),   *)
(* the constructor's bounds and the cutting-plane loop of solve().         *)
(*                                                                         *)
(* Real numbers are kept as integers on a grid: a relaxation value, a      *)
(* problem coefficient or a bound v is stored as the integer v * Den.      *)
(***************************************************************************)
EXTENDS Integers, Sequences, FiniteSets, TLC

\* ------------------------------------------------------------- bounds ---

\* Largest number of QP variables (Problem::nQP) explored.
MaxN == 3

\* Grid resolution: a stored integer k stands for the real k / Den.
Den == 2

\* Largest number of LP solves of one run of solve() explored.
MaxSolves == 2

\* Problem coefficients range over -CoefMax..CoefMax, the constant term
\* over 0..ConstMax.
CoefMax == 1
ConstMax == 1

\* A cut's constant term ranges over -CutMax..0.
CutMax == 2

\* Largest number of QP variables nonPSDcore is run on.
OrcMaxN == 3

\* Largest number of QP variables the index mapper is called with.
IdxMaxN == 6

\* The constructor is run on coefficients in -CtorCoefMax..CtorCoefMax.
CtorCoefMax == 2

\* Largest number of QP variables of the uncounted runs of solve().
LiveMaxN == 4

\* Largest number of QP variables, and of rows already in the LP, the cut
\* application is run on when it is run alone.
CutMaxN == 4
MaxRows == 3

\* ---------------------------------------------------- program constants ---

\* #define CONSTRAINT_FAIL_LIMIT 5
CONSTRAINT_FAIL_LIMIT == 5

\* #define MAX_TRIES_ROUNDING 20
MAX_TRIES_ROUNDING == 20

\* ----------------------------------------------------------- variables ---

VARIABLES
    nQP,        \* LPSolver::nQP, number of QP variables
    coeffs,     \* Problem::coeffs(i,j) for i < j (integers)
    constantTerm, \* Problem::constantTerm (an integer)
    useInterior,  \* whether the build defines USE_INTERIOR
    counting,   \* whether the run counts its solves, oracle calls and cuts
                \* (a counted run is explored up to MaxSolves solves)
    bestSol,    \* LPSolver::bestSol, 1-based here
    lowerBound, \* LPSolver::lowerBound, times Den
    upperBound, \* LPSolver::upperBound, times Den
    currSol,    \* LPSolver::currSol, 1-based here: currSol[v] is C++ currSol[v-1]
    lpRows,     \* the rows of the GLPK problem lp, in row order
    pc,         \* the position of solve(): its label, or how it ended
    succConstraintFail, \* solve()'s local counter
    constraintsEver,    \* solve()'s local counter
    numSolves,  \* history: calls of glp_simplex / glp_interior so far
    numOracle,  \* history: calls of nonPSDcore so far
    lastLP,     \* history: what the LP engine reported at the last solve
    lastPrune,  \* history: the rows visited by the last pruning scan
    roundTries, \* history: candidate vectors scored by roundToSol
    lastCut,    \* the core and the cut handed to the cut application when it is
                \* run alone, and the LP rows it found
    oracleSinceSolve, \* history: calls of nonPSDcore since the last LP solve
    orcLog,     \* history: what the running call of nonPSDcore has tested
    orc,        \* the running call of nonPSDcore: its locals and position
    idx         \* the last call made to the index mapper and its outcome

problemVars == <<nQP, coeffs, constantTerm, useInterior, counting>>
solverVars == <<bestSol, lowerBound, upperBound, currSol, lpRows>>
solveVars == <<pc, succConstraintFail, constraintsEver>>
histVars == <<numSolves, numOracle, lastLP, lastPrune, roundTries, lastCut,
              oracleSinceSolve, orcLog>>

vars == <<problemVars, solverVars, solveVars, histVars, orc, idx>>

\* ------------------------------------------------------------ helpers ---

RECURSIVE SumSeq(_)
SumSeq(s) == IF Len(s) = 0 THEN 0 ELSE Head(s) + SumSeq(Tail(s))

Abs(i) == IF i < 0 THEN -i ELSE i

\* The sequence s without its j-th element.
DropAt(s, j) == [i \in 1..(Len(s) - 1) |-> IF i < j THEN s[i] ELSE s[i + 1]]

\* The elements of the set S of integers in 1..k, in increasing order.
SortedSeq(S, k) == LET In(i) == i \in S IN SelectSeq([i \in 1..k |-> i], In)

\* All orderings of the set S as sequences.
Perms(S) == {p \in [1..Cardinality(S) -> S] : \A i, j \in 1..Cardinality(S) : p[i] = p[j] => i = j}

\* -------------------------------------------------------- index mapper ---

\* nLP = nQP*(nQP-1)/2, set once by the constructor.
nLP == (nQP * (nQP - 1)) \div 2

\* The outcome of a throwing call: std::runtime_error.
LPVarError == [ok |-> FALSE, val |-> 0]
QPVarsError == [ok |-> FALSE, x |-> 0, y |-> 0]

\* getLPVar without the self-pair test.
getLPVar_NoSelfCheck(x, y) ==
    LET hi == IF y > x THEN y ELSE x
        lo == IF y > x THEN x ELSE y
    IN IF lo >= nQP \/ hi >= nQP THEN LPVarError
       ELSE [ok |-> TRUE, val |-> 1 + lo + (hi * (hi - 1)) \div 2]

\* uint32_t LPSolver::getLPVar(uint32_t x, uint32_t y)
\* (the recursive call getLPVar(y, x) for y > x is unfolded: it runs the
\* last two lines with the arguments exchanged)
getLPVar(x, y) ==
    IF y = x THEN LPVarError
    ELSE LET hi == IF y > x THEN y ELSE x
             lo == IF y > x THEN x ELSE y
         IN IF lo >= nQP \/ hi >= nQP THEN LPVarError
            ELSE [ok |-> TRUE, val |-> 1 + lo + (hi * (hi - 1)) \div 2]

\* floor(sqrt(m) + 1./2) for an integer m >= 0: the x with
\* x - 1/2 <= sqrt(m) < x + 1/2, i.e. (2x-1)^2 <= 4m < (2x+1)^2.  4m is
\* even and the squares are odd, so sqrt(m) is never within rounding error
\* of a boundary and the double computation yields the same x.
RoundSqrt(m) ==
    CHOOSE x \in 0..(m + 1) :
        /\ (x = 0 \/ (2 * x - 1) * (2 * x - 1) <= 4 * m)
        /\ 4 * m < (2 * x + 1) * (2 * x + 1)

\* getQPVars computing x = floor(sqrt(2*v)), without the + 1./2.
getQPVars_NoHalf(v) ==
    IF v > nLP THEN QPVarsError
    ELSE LET x == CHOOSE r \in 0..(2 * v) : r * r <= 2 * v /\ 2 * v < (r + 1) * (r + 1)
             d == v - 1 - (x * (x - 1)) \div 2
         IN IF d < 0 \/ d >= x THEN QPVarsError
            ELSE [ok |-> TRUE, x |-> x, y |-> d]

\* getQPVars without the test v > nLP.
getQPVars_NoRangeCheck(v) ==
    LET x == RoundSqrt(2 * v)
        d == v - 1 - (x * (x - 1)) \div 2
    IN IF d < 0 \/ d >= x THEN QPVarsError
       ELSE [ok |-> TRUE, x |-> x, y |-> d]

\* std::pair<uint32_t,uint32_t> LPSolver::getQPVars(uint32_t v)
\* y is a uint32_t: a negative difference d wraps to d + 2^32, which is
\* >= x, so the test y >= x is d < 0 \/ d >= x.
getQPVars(v) ==
    IF v > nLP THEN QPVarsError
    ELSE LET x == RoundSqrt(2 * v)
             d == v - 1 - (x * (x - 1)) \div 2
         IN IF d < 0 \/ d >= x THEN QPVarsError
            ELSE [ok |-> TRUE, x |-> x, y |-> d]

\* ----------------------------------------------------- submatrix / PSD ---

\* MatrixXd& LPSolver::getSubmatrix(std::vector<uint32_t> rows)
\* rows is a sequence of QP indices; the result is indexed from 1.
getSubmatrix(rows) ==
    [i \in 1..Len(rows), j \in 1..Len(rows) |->
        IF i = j THEN Den ELSE currSol[getLPVar(rows[i], rows[j]).val]]

\* MatrixXd& LPSolver::getMatrix()
getMatrix ==
    [i \in 1..nQP, j \in 1..nQP |->
        IF i = j THEN Den ELSE currSol[getLPVar(i - 1, j - 1).val]]

RECURSIVE Det(_, _, _)
\* Determinant of the submatrix of m with rows rs and columns cs (Laplace
\* expansion along the first row).
Det(m, rs, cs) ==
    IF Len(rs) = 0 THEN 1
    ELSE IF Len(rs) = 1 THEN m[rs[1], cs[1]]
    ELSE IF Len(rs) = 2 THEN m[rs[1], cs[1]] * m[rs[2], cs[2]] - m[rs[1], cs[2]] * m[rs[2], cs[1]]
    ELSE SumSeq([j \in 1..Len(cs) |->
            (IF j % 2 = 1 THEN 1 ELSE -1) * m[Head(rs), cs[j]]
                * Det(m, Tail(rs), DropAt(cs, j))])

\* The PSD test of nonPSDcore: SelfAdjointEigenSolver's eigenvalues, none
\*  < -PSD_EIGEN_TOL (1e-5).  A symmetric matrix has no negative eigenvalue
\* iff all its principal minors are >= 0.  On the grid the two tests agree:
\* with e = PSD_EIGEN_TOL, the principal minors of m + e*I are polynomials
\* in e whose coefficients are sums of principal minors of m, integers of
\* size < 1/e - 1 for the k and Den within bounds, so a negative minor of m
\* stays negative for m + e*I and the smallest eigenvalue is below -e.
IsPSD(m, k) ==
    \A S \in SUBSET (1..k) :
        S # {} => LET q == SortedSeq(S, k) IN Det(m, q, q) >= 0

\* ---------------------------------------------------------- nonPSDcore ---

\* No PSD test made yet by the running call.
OrcLogEmpty == [grown |-> <<>>, removed |-> <<>>, reinserted |-> <<>>, growChecks |-> 0]

\* The oracle is not running.
OrcIdle == [phase |-> "idle", core |-> <<>>, notInCore |-> <<>>,
            iter |-> 0, largeMatSize |-> 0]

\* Lines 103-109: core empty, notInCore = 0..nQP-1 after random_shuffle,
\* which leaves them in the order `order`.
OrcStart(order) == [phase |-> "grow", core |-> <<>>, notInCore |-> order,
                    iter |-> 0, largeMatSize |-> 0]

\* The orders random_shuffle can produce.
Shuffles == Perms(0..(nQP - 1))

\* A growth pass that returns the empty core at the first PSD test passed,
\* whether or not rows are left in the pool.
GrowStep_NoPoolCheck(st) ==
    LET newRow == st.notInCore[Len(st.notInCore)]
        pool   == SubSeq(st.notInCore, 1, Len(st.notInCore) - 1)
        core   == Append(st.core, newRow)
        isPSD  == IsPSD(getSubmatrix(core), Len(core))
    IN IF isPSD
       THEN [st EXCEPT !.phase = "done", !.core = <<>>, !.notInCore = pool]
       ELSE [st EXCEPT !.phase = "shrink", !.core = core, !.notInCore = pool,
                       !.largeMatSize = Len(core), !.iter = 0]

\* A growth pass that puts the row it takes at the front of the core.
GrowStep_PushFront(st) ==
    LET newRow == st.notInCore[Len(st.notInCore)]
        pool   == SubSeq(st.notInCore, 1, Len(st.notInCore) - 1)
        core   == <<newRow>> \o st.core
        isPSD  == IsPSD(getSubmatrix(core), Len(core))
    IN IF isPSD
       THEN IF Len(pool) > 0
            THEN [st EXCEPT !.core = core, !.notInCore = pool]
            ELSE [st EXCEPT !.phase = "done", !.core = <<>>, !.notInCore = pool]
       ELSE [st EXCEPT !.phase = "shrink", !.core = core, !.notInCore = pool,
                       !.largeMatSize = Len(core), !.iter = 0]

\* One pass of the do-while loop (lines 111-142).
GrowStep(st) ==
    LET newRow == st.notInCore[Len(st.notInCore)]
        pool   == SubSeq(st.notInCore, 1, Len(st.notInCore) - 1)
        core   == Append(st.core, newRow)
        isPSD  == IsPSD(getSubmatrix(core), Len(core))
    IN IF isPSD
       THEN IF Len(pool) > 0
            THEN [st EXCEPT !.core = core, !.notInCore = pool]
            ELSE [st EXCEPT !.phase = "done", !.core = <<>>, !.notInCore = pool]
       ELSE [st EXCEPT !.phase = "shrink", !.core = core, !.notInCore = pool,
                       !.largeMatSize = Len(core), !.iter = 0]

\* A shrink pass that puts every removed row back.
ShrinkStep_KeepAll(st) ==
    [st EXCEPT !.core = Append(Tail(st.core), st.core[1]), !.iter = st.iter + 1,
               !.phase = IF st.iter + 1 < st.largeMatSize THEN "shrink" ELSE "done"]

\* A shrink pass whose loop is bounded by the size the core has now, not by
\* the size it had when the growth loop was left.
ShrinkStep_LiveBound(st) ==
    LET removedRow == st.core[1]
        core       == Tail(st.core)
        isPSD      == IsPSD(getSubmatrix(core), Len(core))
        left       == IF isPSD THEN Append(core, removedRow) ELSE core
    IN [st EXCEPT !.core = left,
                  !.iter = st.iter + 1,
                  !.phase = IF st.iter + 1 < Len(left) THEN "shrink" ELSE "done"]

\* One pass of the for loop (lines 145-167).
ShrinkStep(st) ==
    LET removedRow == st.core[1]
        core       == Tail(st.core)
        isPSD      == IsPSD(getSubmatrix(core), Len(core))
    IN [st EXCEPT !.core = IF isPSD THEN Append(core, removedRow) ELSE core,
                  !.iter = st.iter + 1,
                  !.phase = IF st.iter + 1 < st.largeMatSize THEN "shrink" ELSE "done"]

\* One loop pass of nonPSDcore from position st.
OrcStep(st) == IF st.phase = "grow" THEN GrowStep(st) ELSE ShrinkStep(st)

\* An oracle that returns the whole pool, whatever the point.
nonPSDcore_WholePool(order) == order

RECURSIVE OrcRun(_)
\* nonPSDcore run to its return.
OrcRun(st) == IF st.phase = "done" THEN st ELSE OrcRun(OrcStep(st))

\* std::vector<uint32_t>& LPSolver::nonPSDcore(), for the shuffle `order`.
nonPSDcore(order) == OrcRun(OrcStart(order)).core

\* ------------------------------------------------- Problem, constructor ---

\* The pairs (i, j), i < j, of QP variables of a problem with n variables.
PairsOf(n) == {<<i, j>> \in (0..(n - 1)) \X (0..(n - 1)) : i < j}

RECURSIVE PairSeq(_)
\* The pairs of a set in the order of the loops `for i; for j = i+1`.
PairSeq(P) ==
    IF P = {} THEN <<>>
    ELSE LET m == CHOOSE a \in P : \A b \in P :
                      a[1] < b[1] \/ (a[1] = b[1] /\ a[2] <= b[2])
         IN <<m>> \o PairSeq(P \ {m})

SortedPairs(n) == PairSeq(PairsOf(n))

\* The sign vectors of length n.
SignVectors(n) == [1..n -> {-1, 1}]

\* Problem::score on the vector s (1-based), times Den: the constant term
\* plus the sum over i < j of coeffs(i,j) * s_i * s_j.
ProblemScore(n, w, c, s) ==
    Den * (c + SumSeq([k \in 1..Cardinality(PairsOf(n)) |->
              LET ij == SortedPairs(n)[k]
              IN w[ij] * s[ij[1] + 1] * s[ij[2] + 1]]))

\* An initial upper bound that sums the coefficients without fabs.
InitialUpperBound_NoAbs(n, w, c) ==
    Den * (c + SumSeq([k \in 1..Cardinality(PairsOf(n)) |-> w[SortedPairs(n)[k]]]))

\* Lines 35-40: upperBound = constantTerm + sum of fabs(coeffs(i,j)), times Den.
InitialUpperBound(n, w, c) ==
    Den * (c + SumSeq([k \in 1..Cardinality(PairsOf(n)) |-> Abs(w[SortedPairs(n)[k]])]))

\* Lines 30-32: bestSol is the all-ones vector and lowerBound its score.
InitialBestSol(n) == [i \in 1..n |-> 1]
InitialLowerBound(n, w, c) == ProblemScore(n, w, c, InitialBestSol(n))

\* ----------------------------------------------------------- LP engine ---

\* The column values the LP engine is taken to report: -1, 0 and 1, the
\* integer points of the box [-1, 1] (glp_set_col_bnds, line 61).
LPVals == {-Den, 0, Den}
BoxPoints == [1..nLP -> LPVals]

\* Line 62-65: the objective coefficient of column v is coeffs(y, x) for
\* (x, y) = getQPVars(v).
ColObj(v) == LET xy == getQPVars(v) IN coeffs[<<xy.y, xy.x>>]

\* Lines 59-66: the objective row of the LP.
ObjCoefs == [v \in 1..nLP |-> ColObj(v)]

\* The objective value of the point x under the coefficients obj, times
\* Den, without the constant.
Objective(obj, x) == SumSeq([v \in 1..nLP |-> obj[v] * x[v]])

\* The value of row r at the point x, times Den (glp_get_row_prim after a
\* simplex solve).
RowActivity(r, x) == SumSeq([k \in 1..Len(r.ind) |-> r.val[k] * x[r.ind[k]]])

\* The grid points satisfying every row (rows are GLP_LO: activity >= lb).
FeasiblePoints == {x \in BoxPoints : \A i \in 1..Len(lpRows) : RowActivity(lpRows[i], x) >= lpRows[i].lb}

\* The feasible grid points no feasible grid point beats: where a solve
\* that ends optimal can land.
OptimalPoints ==
    LET obj == ObjCoefs
        feas == FeasiblePoints
        vals == {Objective(obj, x) : x \in feas}
        best == CHOOSE m \in vals : \A o \in vals : o <= m
    IN IF feas = {} THEN {} ELSE {x \in feas : Objective(obj, x) = best}

\* The points strictly inside the box: an interior-point iterate never sits
\* on a column bound.
InteriorPoints == [1..nLP -> LPVals \ {-Den, Den}]

\* What glp_simplex (and glp_get_status) or glp_interior can report, with
\* the column values read back.  glp_simplex never returns GLP_EINSTAB; the
\* interior build never reads a status (lines 282-287 are compiled out).
LPOutcomes ==
    IF useInterior
    THEN {[ret |-> "EFAIL", status |-> "unread", x |-> currSol]}
         \cup {[ret |-> "OK", status |-> "unread", x |-> p] : p \in OptimalPoints}
         \cup {[ret |-> "EINSTAB", status |-> "unread", x |-> p] : p \in InteriorPoints}
    ELSE {[ret |-> "EFAIL", status |-> "UNDEF", x |-> currSol],
          [ret |-> "OK", status |-> "NOFEAS", x |-> currSol]}
         \cup {[ret |-> "OK", status |-> "OPT", x |-> p] : p \in OptimalPoints}

\* A status test that takes GLP_EINSTAB for a failure like the others.
LPExit_InstabFatal(ret, status) ==
    IF ret # "OK" THEN 1
    ELSE IF ~useInterior /\ status # "OPT" THEN 2
    ELSE 0

\* Lines 274-287: the exit code solve() leaves with, 0 to go on.
LPExit(ret, status) ==
    IF ret # "OK" /\ ret # "EINSTAB" THEN 1
    ELSE IF ~useInterior /\ status # "OPT" THEN 2
    ELSE 0

\* float LPSolver::scoreRelaxation(), for currSol = sol; times Den.
RelaxScore(sol) ==
    Den * constantTerm
    + SumSeq([k \in 1..Cardinality(PairsOf(nQP)) |->
          LET ij == SortedPairs(nQP)[k]
          IN sol[getLPVar(ij[1], ij[2]).val] * coeffs[ij]])

scoreRelaxation == RelaxScore(currSol)

\* A bound update that takes the larger of the two.
NewUpperBound_Max(ub, score) == IF score > ub THEN score ELSE ub

\* Line 296: std::min(upperBound, scoreRelaxation()).
NewUpperBound(ub, score) == IF score < ub THEN score ELSE ub

\* The rows after a solve that went on: glp_simplex sets every row's primal
\* value; glp_interior leaves the basic solution's values as they were.
RowsAfterSolve(x) ==
    IF useInterior THEN lpRows
    ELSE [i \in 1..Len(lpRows) |-> [lpRows[i] EXCEPT !.prim = RowActivity(lpRows[i], x)]]

\* ------------------------------------------------------- cuts and rows ---

\* #define CONSTRAINT_REMOVAL_SLACK 0.99, in hundredths.
CONSTRAINT_REMOVAL_SLACK_PCT == 99

\* A pruning test that measures the slack against 0.99 of the row's bound.
PruneTest_FractionOfBound(prim, lb) ==
    (prim - lb) * 100 > CONSTRAINT_REMOVAL_SLACK_PCT * lb

\* Lines 325-326: slack = row prim - row lb; slack > CONSTRAINT_REMOVAL_SLACK.
\* prim and lb are times Den.
PruneTest(prim, lb) ==
    (prim - lb) * 100 > CONSTRAINT_REMOVAL_SLACK_PCT * Den

RECURSIVE PruneScan_Upward(_, _, _)
\* A scan that visits the row indices from 1 upwards while it deletes.
PruneScan_Upward(rs, i, log) ==
    LET j == Len(log) + 1
    IN IF i <= 0 \/ j > Len(rs) THEN [kept |-> rs, log |-> log]
       ELSE LET del == PruneTest(rs[j].prim, rs[j].lb)
            IN PruneScan_Upward(IF del THEN DropAt(rs, j) ELSE rs, i - 1,
                                Append(log, [i |-> j, prim |-> rs[j].prim,
                                             lb |-> rs[j].lb, deleted |-> del]))

RECURSIVE PruneScan(_, _, _)
\* Lines 323-330: the loop for(i = rowNum; i > 0; i--) from position i, on
\* the rows rs; glp_del_rows is handed the one index i.
PruneScan(rs, i, log) ==
    IF i <= 0 THEN [kept |-> rs, log |-> log]
    ELSE LET del == PruneTest(rs[i].prim, rs[i].lb)
         IN PruneScan(IF del THEN DropAt(rs, i) ELSE rs, i - 1,
                      Append(log, [i |-> i, prim |-> rs[i].prim, lb |-> rs[i].lb,
                                   deleted |-> del]))

\* A cut application that attaches the coefficients to the cut's own
\* (core-local) column indices.
AddCutRow_LocalIndices(rs, core, constraint) ==
    LET m == Len(constraint) - 1
    IN Append(rs, [lb |-> constraint[1] * Den,
                   ind |-> [v \in 1..m |-> v],
                   val |-> [v \in 1..m |-> constraint[v + 1]],
                   prim |-> 0])

\* Lines 339-354: glp_add_rows, the indices built from the core, then
\* glp_set_mat_row and glp_set_row_bnds(GLP_LO, constraint[0]).
\* constraint is 1-based here: constraint[1] is the constant term.
AddCutRow(rs, core, constraint) ==
    LET m == Len(constraint) - 1
        indices == [v \in 1..m |->
                       LET ij == getQPVars(v)
                           largeI == core[ij.x + 1]
                           largeJ == core[ij.y + 1]
                       IN getLPVar(largeI, largeJ).val]
    IN Append(rs, [lb |-> constraint[1] * Den,
                   ind |-> indices,
                   val |-> [v \in 1..m |-> constraint[v + 1]],
                   prim |-> 0])

\* No cut handed over.
NoCut == [core |-> <<>>, constraint |-> <<>>, rowsBefore |-> <<>>]

\* The values a cut's constant term and coefficients are drawn from.
CutConstVals == (-CutMax)..0
CutCoefVals == {-1, 1}

\* LPSolver::findConstraint(coreMat) for a k x k core matrix: the empty
\* vector, or a constant followed by one coefficient per pair of the core
\* in packed order, an inequality sum >= constant that every sign vector
\* satisfies and the current point violates.
findConstraint(coreMat, k) ==
    LET m == (k * (k - 1)) \div 2
        pair == [v \in 1..m |-> getQPVars(v)]
        point == [v \in 1..m |-> coreMat[pair[v].x + 1, pair[v].y + 1]]
        signPoints == {[v \in 1..m |-> sg[pair[v].x + 1] * sg[pair[v].y + 1]] :
                           sg \in SignVectors(k)}
        lhs(a, ent) == SumSeq([v \in 1..m |-> a[v] * ent[v]])
        Valid(c, a) == \A sp \in signPoints : lhs(a, sp) >= c
        Violated(c, a) == lhs(a, point) < c * Den
    IN {<<>>} \cup
       {<<ca[1]>> \o ca[2] :
            ca \in {cb \in CutConstVals \X [1..m -> CutCoefVals] :
                        Violated(cb[1], cb[2]) /\ Valid(cb[1], cb[2])}}

\* --------------------------------------------------------------- solve ---

\* A counter of the run after one more event; an uncounted run leaves its
\* counters alone.
Count(c) == IF counting THEN c + 1 ELSE c

\* lround of the grid value k / Den: to the nearest integer, halves away
\* from zero.
lround(k) == (IF k < 0 THEN -1 ELSE 1) * ((2 * Abs(k) + Den) \div (2 * Den))

\* A fail-limit test that never sends solve() to the rounding label.
FailLimitReached_Never(count) == FALSE

\* Line 313: succConstraintFail == CONSTRAINT_FAIL_LIMIT.
FailLimitReached(count) == count = CONSTRAINT_FAIL_LIMIT

\* Label solve (lines 263-297): the LP solve, the status tests, the refresh
\* of currSol and the bound update.
SolveLP ==
    /\ pc = "solve"
    /\ counting => numSolves < MaxSolves
    /\ \E out \in LPOutcomes :
        /\ lastLP' = out
        /\ numSolves' = Count(numSolves)
        /\ oracleSinceSolve' = 0
        /\ IF LPExit(out.ret, out.status) # 0
           THEN /\ pc' = IF LPExit(out.ret, out.status) = 1 THEN "exit1" ELSE "exit2"
                /\ UNCHANGED <<currSol, upperBound, lpRows>>
           ELSE /\ pc' = "findcore"
                /\ currSol' = out.x
                /\ lpRows' = RowsAfterSolve(out.x)
                /\ upperBound' = NewUpperBound(upperBound, RelaxScore(out.x))
    /\ UNCHANGED <<problemVars, bestSol, lowerBound, succConstraintFail, constraintsEver,
                   numOracle, lastPrune, roundTries, lastCut, orcLog, orc, idx>>

\* Lines 302-304: the oracle returned the empty core.
CoreEmpty(core) ==
    /\ Len(core) = 0
    /\ pc' = "complete"
    /\ UNCHANGED <<lpRows, succConstraintFail, constraintsEver, lastPrune>>

\* A failure branch that also empties the LP of its rows.
CutFail_DropsRows(core, constraint) ==
    /\ Len(core) # 0
    /\ Len(constraint) = 0
    /\ succConstraintFail' = succConstraintFail + 1
    /\ pc' = IF FailLimitReached(succConstraintFail + 1) THEN "rounding" ELSE "findcore"
    /\ lpRows' = <<>>
    /\ UNCHANGED <<constraintsEver, lastPrune>>

\* Lines 311-316: findConstraint returned the empty vector.
CutFail(core, constraint) ==
    /\ Len(core) # 0
    /\ Len(constraint) = 0
    /\ succConstraintFail' = succConstraintFail + 1
    /\ pc' = IF FailLimitReached(succConstraintFail + 1) THEN "rounding" ELSE "findcore"
    /\ UNCHANGED <<lpRows, constraintsEver, lastPrune>>

\* A success branch that leaves succConstraintFail as it is.
CutSuccess_NoReset(core, constraint) ==
    /\ Len(core) # 0
    /\ Len(constraint) # 0
    /\ LET scan == PruneScan(lpRows, Len(lpRows), <<>>)
       IN /\ lpRows' = AddCutRow(scan.kept, core, constraint)
          /\ lastPrune' = scan.log
    /\ succConstraintFail' = succConstraintFail
    /\ constraintsEver' = Count(constraintsEver)
    /\ pc' = "solve"

\* Lines 317-356: findConstraint returned a cut; slack rows are removed,
\* the cut's row is added, and solve() goes back to the label solve.
CutSuccess(core, constraint) ==
    /\ Len(core) # 0
    /\ Len(constraint) # 0
    /\ LET scan == PruneScan(lpRows, Len(lpRows), <<>>)
       IN /\ lpRows' = AddCutRow(scan.kept, core, constraint)
          /\ lastPrune' = scan.log
    /\ succConstraintFail' = 0
    /\ constraintsEver' = Count(constraintsEver)
    /\ pc' = "solve"

\* Label findcore (lines 299-356): one call of nonPSDcore and what follows
\* from its result.
FindCore ==
    /\ pc = "findcore"
    /\ numOracle' = Count(numOracle)
    /\ oracleSinceSolve' = oracleSinceSolve + 1
    /\ UNCHANGED <<problemVars, bestSol, lowerBound, upperBound, currSol,
                   numSolves, lastLP, roundTries, lastCut, orcLog, orc, idx>>
    /\ \E order \in Shuffles :
        LET core == nonPSDcore(order)
        IN \/ CoreEmpty(core)
           \/ /\ Len(core) # 0
              /\ \E constraint \in findConstraint(getSubmatrix(core), Len(core)) :
                    \/ CutFail(core, constraint)
                    \/ CutSuccess(core, constraint)

RECURSIVE RoundingTries(_)
\* Lines 233-254: the loop for(tries = 0; tries < MAX_TRIES_ROUNDING; tries++)
\* from position tries; each pass scores one candidate and stores nothing.
RoundingTries(tries) ==
    IF tries < MAX_TRIES_ROUNDING THEN 1 + RoundingTries(tries + 1) ELSE 0

\* A rounding label whose roundToSol stores the last candidate and its score.
Rounding_StoresBest ==
    /\ pc = "rounding"
    /\ roundTries' = RoundingTries(0)
    /\ pc' = "doneFallback"
    /\ \E s \in SignVectors(nQP) :
          /\ bestSol' = s
          /\ lowerBound' = ProblemScore(nQP, coeffs, constantTerm, s)
    /\ UNCHANGED <<problemVars, upperBound, currSol, lpRows, succConstraintFail,
                   constraintsEver, numSolves, numOracle, lastLP, lastPrune, lastCut,
                   oracleSinceSolve, orcLog, orc, idx>>

\* Label rounding (lines 359-362): roundToSol(), then return.
Rounding ==
    /\ pc = "rounding"
    /\ roundTries' = RoundingTries(0)
    /\ pc' = "doneFallback"
    /\ UNCHANGED <<problemVars, solverVars, succConstraintFail, constraintsEver,
                   numSolves, numOracle, lastLP, lastPrune, lastCut, oracleSinceSolve,
                   orcLog, orc, idx>>

\* Lines 367-370: bestSol(0) = 1, bestSol(i) = lround(currSol[getLPVar(0,i)-1]).
CompleteBestSol ==
    [i \in 1..nQP |-> IF i = 1 THEN 1 ELSE lround(currSol[getLPVar(0, i - 1).val])]

\* Label complete (lines 365-379).
Complete ==
    /\ pc = "complete"
    /\ bestSol' = CompleteBestSol
    /\ pc' = "doneComplete"
    /\ UNCHANGED <<problemVars, lowerBound, upperBound, currSol, lpRows,
                   succConstraintFail, constraintsEver, histVars, orc, idx>>

\* The problems solve() is run on: the coefficients are nonzero integers,
\* the constant term an integer.
CoefVals == ((-CoefMax)..CoefMax) \ {0}
ConstVals == 0..ConstMax

IdxIdle == [op |-> "none", x |-> 0, y |-> 0, v |-> 0,
            lp |-> LPVarError, lpSwap |-> LPVarError, qp |-> QPVarsError]

\* The state LPSolver::LPSolver(Problem* p) leaves (lines 24-69), for every
\* problem within the bounds and either build.
Init ==
    /\ nQP \in 1..MaxN
    /\ coeffs \in [PairsOf(nQP) -> CoefVals]
    /\ constantTerm \in ConstVals
    /\ useInterior \in BOOLEAN
    /\ counting = TRUE
    /\ bestSol = InitialBestSol(nQP)
    /\ lowerBound = InitialLowerBound(nQP, coeffs, constantTerm)
    /\ upperBound = InitialUpperBound(nQP, coeffs, constantTerm)
    /\ currSol = [v \in 1..nLP |-> 0]
    /\ lpRows = <<>>
    /\ pc = "solve"
    /\ succConstraintFail = 0
    /\ constraintsEver = 0
    /\ numSolves = 0
    /\ numOracle = 0
    /\ lastLP = [ret |-> "none", status |-> "none", x |-> [v \in 1..nLP |-> 0]]
    /\ lastPrune = <<>>
    /\ roundTries = 0
    /\ lastCut = NoCut
    /\ oracleSinceSolve = 0
    /\ orcLog = OrcLogEmpty
    /\ orc = OrcIdle
    /\ idx = IdxIdle

Next ==
    \/ SolveLP
    \/ FindCore
    \/ Rounding
    \/ Complete

Spec == Init /\ [][Next]_vars

\* solve() has not returned or exited (and a counted run has not used up
\* the LP solves explored): exactly the states in which Next can step.
Running ==
    \/ pc \in {"findcore", "rounding", "complete"}
    \/ pc = "solve" /\ (counting => numSolves < MaxSolves)

\* The positions of solve().
PcVals == {"solve", "findcore", "rounding", "complete", "doneFallback", "doneComplete",
           "exit1", "exit2"}

\* Some statement of solve() is executed: every step of Next moves solve()
\* to another label or, on a cut failure short of the limit, raises
\* succConstraintFail.
Advance ==
    /\ Running
    /\ \E q \in PcVals, c \in 0..CONSTRAINT_FAIL_LIMIT :
          /\ pc' = q
          /\ succConstraintFail' = c
          /\ q # pc \/ c # succConstraintFail

\* solve() is a sequential procedure: while it has not returned or exited,
\* its next statement is executed.
SpecFair == Spec /\ WF_<<pc, succConstraintFail>>(Advance)

\* ------------------------------------------------ solve(), run uncounted ---

\* Coefficients -1, -2, ... in the packed order of the pairs: all negative
\* and no two alike.
LiveCoeffs(n) ==
    [ij \in PairsOf(n) |->
        -(CHOOSE k \in 1..Cardinality(PairsOf(n)) : SortedPairs(n)[k] = ij)]

\* The state the constructor leaves in the USE_INTERIOR build for the
\* problems with the coefficients LiveCoeffs and constant 0; the run of
\* solve() is not counted, so it is explored however many solves it makes.
InitLive ==
    /\ nQP \in 1..LiveMaxN
    /\ coeffs = LiveCoeffs(nQP)
    /\ constantTerm = 0
    /\ useInterior = TRUE
    /\ counting = FALSE
    /\ bestSol = InitialBestSol(nQP)
    /\ lowerBound = InitialLowerBound(nQP, coeffs, constantTerm)
    /\ upperBound = InitialUpperBound(nQP, coeffs, constantTerm)
    /\ currSol = [v \in 1..nLP |-> 0]
    /\ lpRows = <<>>
    /\ pc = "solve"
    /\ succConstraintFail = 0
    /\ constraintsEver = 0
    /\ numSolves = 0
    /\ numOracle = 0
    /\ lastLP = [ret |-> "none", status |-> "none", x |-> [v \in 1..nLP |-> 0]]
    /\ lastPrune = <<>>
    /\ roundTries = 0
    /\ lastCut = NoCut
    /\ oracleSinceSolve = 0
    /\ orcLog = OrcLogEmpty
    /\ orc = OrcIdle
    /\ idx = IdxIdle

SpecLive == InitLive /\ [][Next]_vars /\ WF_<<pc, succConstraintFail>>(Advance)

\* ---------------------------------------- the oracle, one pass at a time ---

\* The relaxation values nonPSDcore is run on: the grid of [-1, 1] and one
\* grid step beyond it on either side.
OracleVals == (-(Den + 1))..(Den + 1)

\* The state at a call of nonPSDcore, for every relaxation point on the
\* grid and every number of variables within the bound.
InitOracle ==
    /\ nQP \in 1..OrcMaxN
    /\ coeffs = [ij \in PairsOf(nQP) |-> 1]
    /\ constantTerm = 0
    /\ useInterior = FALSE
    /\ counting = TRUE
    /\ bestSol = InitialBestSol(nQP)
    /\ lowerBound = InitialLowerBound(nQP, coeffs, constantTerm)
    /\ upperBound = InitialUpperBound(nQP, coeffs, constantTerm)
    /\ currSol \in [1..nLP -> OracleVals]
    /\ lpRows = <<>>
    /\ pc = "findcore"
    /\ succConstraintFail = 0
    /\ constraintsEver = 0
    /\ numSolves = 1
    /\ numOracle = 0
    /\ lastLP = [ret |-> "OK", status |-> "OPT", x |-> currSol]
    /\ lastPrune = <<>>
    /\ roundTries = 0
    /\ lastCut = NoCut
    /\ oracleSinceSolve = 0
    /\ orcLog = OrcLogEmpty
    /\ orc = OrcIdle
    /\ idx = IdxIdle

otherThanOrc == <<problemVars, solverVars, solveVars, numSolves, lastLP, lastPrune,
                  roundTries, lastCut, oracleSinceSolve, idx>>

\* Lines 103-109: nonPSDcore is entered and the pool shuffled.
OrcCall ==
    /\ orc.phase = "idle"
    /\ \E order \in Shuffles : orc' = OrcStart(order)
    /\ numOracle' = numOracle + 1
    /\ orcLog' = OrcLogEmpty
    /\ UNCHANGED otherThanOrc

\* One pass of the growth loop.
OrcGrow ==
    /\ orc.phase = "grow"
    /\ orc' = GrowStep(orc)
    /\ orcLog' = [orcLog EXCEPT !.growChecks = @ + 1,
                                !.grown = IF orc'.phase = "shrink" THEN orc'.core ELSE @]
    /\ UNCHANGED <<otherThanOrc, numOracle>>

\* One pass of the shrink loop.
OrcShrink ==
    /\ orc.phase = "shrink"
    /\ orc' = ShrinkStep(orc)
    /\ orcLog' = [orcLog EXCEPT !.removed = Append(@, orc.core[1]),
                                !.reinserted = Append(@, Len(orc'.core) = Len(orc.core))]
    /\ UNCHANGED <<otherThanOrc, numOracle>>

NextOracle == OrcCall \/ OrcGrow \/ OrcShrink

SpecOracle == InitOracle /\ [][NextOracle]_vars

\* nonPSDcore is straight-line code between its loop tests: a call that can
\* take its next pass takes it.
SpecOracleFair == SpecOracle /\ WF_vars(NextOracle)

\* ------------------------------------------------ the index mapper alone ---

\* An LPSolver for n variables, n up to IdxMaxN, before any call.
InitIndex ==
    /\ nQP \in 0..IdxMaxN
    /\ coeffs = [ij \in PairsOf(nQP) |-> 1]
    /\ constantTerm = 0
    /\ useInterior = FALSE
    /\ counting = TRUE
    /\ bestSol = InitialBestSol(nQP)
    /\ lowerBound = InitialLowerBound(nQP, coeffs, constantTerm)
    /\ upperBound = InitialUpperBound(nQP, coeffs, constantTerm)
    /\ currSol = [v \in 1..nLP |-> 0]
    /\ lpRows = <<>>
    /\ pc = "solve"
    /\ succConstraintFail = 0
    /\ constraintsEver = 0
    /\ numSolves = 0
    /\ numOracle = 0
    /\ lastLP = [ret |-> "none", status |-> "none", x |-> currSol]
    /\ lastPrune = <<>>
    /\ roundTries = 0
    /\ lastCut = NoCut
    /\ oracleSinceSolve = 0
    /\ orcLog = OrcLogEmpty
    /\ orc = OrcIdle
    /\ idx = IdxIdle

otherThanIdx == <<problemVars, solverVars, solveVars, histVars, orc>>

\* A call getLPVar(x, y), for indices up to one past the valid ones; the
\* call with the arguments exchanged is made beside it.
CallGetLPVar ==
    /\ \E x, y \in 0..(nQP + 1) :
        idx' = [op |-> "getLPVar", x |-> x, y |-> y, v |-> 0,
                lp |-> getLPVar(x, y), lpSwap |-> getLPVar(y, x), qp |-> QPVarsError]
    /\ UNCHANGED otherThanIdx

\* A call getQPVars(v), for v up to two past nLP.
CallGetQPVars ==
    /\ \E v \in 0..(nLP + 2) :
        idx' = [op |-> "getQPVars", x |-> 0, y |-> 0, v |-> v,
                lp |-> LPVarError, lpSwap |-> LPVarError, qp |-> getQPVars(v)]
    /\ UNCHANGED otherThanIdx

\* getQPVars applied to the index getLPVar(x, y) returned.
CallRoundTrip ==
    /\ \E x, y \in 0..(nQP + 1) :
        /\ getLPVar(x, y).ok
        /\ idx' = [op |-> "roundTrip", x |-> x, y |-> y, v |-> getLPVar(x, y).val,
                   lp |-> getLPVar(x, y), lpSwap |-> getLPVar(y, x),
                   qp |-> getQPVars(getLPVar(x, y).val)]
    /\ UNCHANGED otherThanIdx

NextIndex == CallGetLPVar \/ CallGetQPVars \/ CallRoundTrip

SpecIndex == InitIndex /\ [][NextIndex]_vars

\* ---------------------------------------------------- the constructor ---

\* The values the constructor is checked on: coefficients in
\* -CtorCoefMax..CtorCoefMax, constant terms in -ConstMax-1..ConstMax+1.
CtorCoefVals == (-CtorCoefMax)..CtorCoefMax
CtorConstVals == (-(ConstMax + 1))..(ConstMax + 1)

\* A Problem handed to the constructor, before it has run.
InitCtor ==
    /\ nQP \in 1..MaxN
    /\ coeffs \in [PairsOf(nQP) -> CtorCoefVals]
    /\ constantTerm \in CtorConstVals
    /\ useInterior = FALSE
    /\ counting = TRUE
    /\ bestSol = <<>>
    /\ lowerBound = 0
    /\ upperBound = 0
    /\ currSol = <<>>
    /\ lpRows = <<>>
    /\ pc = "new"
    /\ succConstraintFail = 0
    /\ constraintsEver = 0
    /\ numSolves = 0
    /\ numOracle = 0
    /\ lastLP = [ret |-> "none", status |-> "none", x |-> <<>>]
    /\ lastPrune = <<>>
    /\ roundTries = 0
    /\ lastCut = NoCut
    /\ oracleSinceSolve = 0
    /\ orcLog = OrcLogEmpty
    /\ orc = OrcIdle
    /\ idx = IdxIdle

\* LPSolver::LPSolver(Problem* p), lines 24-69.
Construct ==
    /\ pc = "new"
    /\ bestSol' = InitialBestSol(nQP)
    /\ lowerBound' = InitialLowerBound(nQP, coeffs, constantTerm)
    /\ upperBound' = InitialUpperBound(nQP, coeffs, constantTerm)
    /\ currSol' = [v \in 1..nLP |-> 0]
    /\ lpRows' = <<>>
    /\ pc' = "solve"
    /\ UNCHANGED <<problemVars, succConstraintFail, constraintsEver, histVars, orc, idx>>

NextCtor == Construct

SpecCtor == InitCtor /\ [][NextCtor]_vars

\* ------------------------------------------- the cut application alone ---

\* The cores handed to the cut application: sequences of distinct QP
\* indices, of length 2 to n.
CoreSeqs(n) ==
    UNION {{c \in [1..k -> 0..(n - 1)] : \A i, j \in 1..k : c[i] = c[j] => i = j} :
               k \in 2..n}

\* The cuts handed over for a core of k indices: a constant and one
\* coefficient per pair of the core.
CutsFor(k) ==
    {<<ca[1]>> \o ca[2] :
        ca \in CutConstVals \X [1..((k * (k - 1)) \div 2) -> CutCoefVals]}

\* The rows found in the LP: a bound of -1 or -2 and a primal value that
\* leaves a slack of 1/Den (kept) or 1 (deleted).
OldRows ==
    {[lb |-> -b * Den, ind |-> <<1>>, val |-> <<1>>, prim |-> -b * Den + sl] :
        b \in {1, 2}, sl \in {1, Den}}

\* solve() at findcore after a solve, with up to MaxRows rows in the LP.
InitCut ==
    /\ nQP \in 2..CutMaxN
    /\ coeffs = [ij \in PairsOf(nQP) |-> 1]
    /\ constantTerm = 0
    /\ useInterior = FALSE
    /\ counting = TRUE
    /\ bestSol = InitialBestSol(nQP)
    /\ lowerBound = InitialLowerBound(nQP, coeffs, constantTerm)
    /\ upperBound = InitialUpperBound(nQP, coeffs, constantTerm)
    /\ currSol = [v \in 1..nLP |-> 0]
    /\ lpRows \in UNION {[1..k -> OldRows] : k \in 0..MaxRows}
    /\ pc = "findcore"
    /\ succConstraintFail = 0
    /\ constraintsEver = 0
    /\ numSolves = 1
    /\ numOracle = 0
    /\ lastLP = [ret |-> "OK", status |-> "OPT", x |-> currSol]
    /\ lastPrune = <<>>
    /\ roundTries = 0
    /\ lastCut = NoCut
    /\ oracleSinceSolve = 0
    /\ orcLog = OrcLogEmpty
    /\ orc = OrcIdle
    /\ idx = IdxIdle

\* Lines 317-356 for a core and a cut handed over.
ApplyCut ==
    /\ pc = "findcore"
    /\ \E core \in CoreSeqs(nQP) :
         \E constraint \in CutsFor(Len(core)) :
            /\ CutSuccess(core, constraint)
            /\ lastCut' = [core |-> core, constraint |-> constraint, rowsBefore |-> lpRows]
    /\ UNCHANGED <<problemVars, bestSol, lowerBound, upperBound, currSol, numSolves,
                   numOracle, lastLP, roundTries, oracleSinceSolve, orcLog, orc, idx>>

NextCut == ApplyCut

SpecCut == InitCut /\ [][NextCut]_vars

\* ============================================================== claims ===

Min2(a, b) == IF a < b THEN a ELSE b
Max2(a, b) == IF a > b THEN a ELSE b
Range(s) == {s[i] : i \in 1..Len(s)}

\* C1: when nonPSDcore returns the empty set the full nQP x nQP matrix of
\* the current point is PSD within tolerance, and when it returns a
\* non-empty set the matrix that set induces is not.
C1_SeparationCorrect ==
    orc.phase = "done" =>
        IF Len(orc.core) = 0
        THEN IsPSD(getMatrix, nQP)
        ELSE ~IsPSD(getSubmatrix(orc.core), Len(orc.core))

\* A returned core that is non-empty and leaves some variable out.
C1_Witness ==
    /\ orc.phase = "done"
    /\ Len(orc.core) >= 2
    /\ Len(orc.core) < nQP
    /\ ~IsPSD(getMatrix, nQP)

\* C2: a non-empty core returned by nonPSDcore has at least two elements
\* and becomes PSD when any one of its elements is removed; for two
\* variables with off-diagonal -1.5 the core is both indices.
C2_CoreMinimal ==
    (orc.phase = "done" /\ Len(orc.core) # 0) =>
        /\ Len(orc.core) >= 2
        /\ \A i \in 1..Len(orc.core) :
              IsPSD(getSubmatrix(DropAt(orc.core, i)), Len(orc.core) - 1)
        /\ (nQP = 2 /\ 2 * currSol[1] = -3 * Den) => Range(orc.core) = {0, 1}

\* The two-variable point with off-diagonal -1.5, its core returned.
C2_Witness ==
    /\ orc.phase = "done"
    /\ nQP = 2
    /\ 2 * currSol[1] = -3 * Den
    /\ Range(orc.core) = {0, 1}

\* A step taken at the rounding label or after it leaves the LP and the
\* oracle alone.
C3_NoWorkAfterFallback ==
    pc \in {"rounding", "doneFallback"} =>
        /\ pc' \in {"rounding", "doneFallback"}
        /\ numSolves' = numSolves
        /\ numOracle' = numOracle
        /\ lpRows' = lpRows

\* C3: when the count of consecutive empty findConstraint results reaches
\* CONSTRAINT_FAIL_LIMIT solve() is at the rounding label or has returned
\* from it, and from there on no LP solve and no oracle call is made and
\* no LP row is added or deleted.
C3_FallbackTrigger ==
    /\ [](succConstraintFail = CONSTRAINT_FAIL_LIMIT => pc \in {"rounding", "doneFallback"})
    /\ [][C3_NoWorkAfterFallback]_vars

\* solve() has returned through the rounding label after five failures.
C3_Witness ==
    /\ pc = "doneFallback"
    /\ succConstraintFail = 5
    /\ numOracle >= 5
    /\ roundTries = MAX_TRIES_ROUNDING

\* C4: for a valid pair x # y, getQPVars(getLPVar(x, y)) is (max, min),
\* and getLPVar(y, x) returns what getLPVar(x, y) returns.
C4_IndexRoundTrip ==
    (idx.op = "roundTrip" /\ idx.x # idx.y /\ idx.x < nQP /\ idx.y < nQP) =>
        /\ idx.lp.ok
        /\ idx.qp = [ok |-> TRUE, x |-> Max2(idx.x, idx.y), y |-> Min2(idx.x, idx.y)]
        /\ idx.lpSwap = idx.lp

\* A round trip from a pair given in the order y > x, for the largest x.
C4_Witness ==
    /\ idx.op = "roundTrip"
    /\ idx.y > idx.x
    /\ idx.y = nQP - 1
    /\ nQP >= 4
    /\ idx.qp.ok
    /\ idx.qp.x = idx.y

\* upperBound does not grow, and after a solve that goes on it is at most
\* the score of the new point.
C5_Step ==
    /\ upperBound' <= upperBound
    /\ (numSolves' # numSolves /\ pc' = "findcore") =>
           upperBound' <= RelaxScore(currSol')

\* C5: no step increases upperBound, and a step that solves the LP and goes
\* on leaves upperBound at most the relaxation score of the new point.
C5_UpperBoundMonotone == [][C5_Step]_vars

\* A second solve has lowered upperBound below the constructor's bound.
C5_Witness ==
    /\ numSolves = 2
    /\ pc = "findcore"
    /\ upperBound < InitialUpperBound(nQP, coeffs, constantTerm)
    /\ upperBound = scoreRelaxation

\* C6: when solve() ends at the complete label bestSol has length nQP, its
\* first entry is 1 and every entry is 1 or -1.
C6_BestSolIsSignVector ==
    pc = "doneComplete" =>
        /\ Len(bestSol) = nQP
        /\ bestSol[1] = 1
        /\ \A i \in 1..nQP : bestSol[i] \in {-1, 1}

\* C7: after the constructor upperBound is the constant plus the sum of
\* the absolute coefficients, it is at least the score of every sign
\* vector, and at least lowerBound, the score of the all-ones vector.
C7_InitialBoundValid ==
    pc = "solve" =>
        /\ \A s \in SignVectors(nQP) :
              upperBound >= ProblemScore(nQP, coeffs, constantTerm, s)
        /\ lowerBound = ProblemScore(nQP, coeffs, constantTerm, [i \in 1..nQP |-> 1])
        /\ upperBound >= lowerBound

\* A constructed solver whose problem has a negative coefficient and whose
\* bounds differ.
C7_Witness ==
    /\ pc = "solve"
    /\ nQP = 3
    /\ \E ij \in PairsOf(nQP) : coeffs[ij] < 0
    /\ constantTerm # 0
    /\ upperBound > lowerBound

\* What a step may do, by the report of the solve it makes.
C8_Step ==
    /\ pc \notin {"exit1", "exit2"}
    /\ numSolves' # numSolves =>
         LET r == lastLP'
             fatal == \/ r.ret \notin {"OK", "EINSTAB"}
                      \/ r.status \notin {"OPT", "unread"}
         IN /\ fatal => /\ pc' \in {"exit1", "exit2"}
                        /\ currSol' = currSol
                        /\ upperBound' = upperBound
                        /\ numOracle' = numOracle
            /\ r.ret = "EINSTAB" =>
                        /\ pc' = "findcore"
                        /\ currSol' = r.x
                        /\ upperBound' = Min2(upperBound, RelaxScore(r.x))

C9_PruneByFractionOfBound ==
    \A k \in 1..Len(lastPrune) :
        lastPrune[k].deleted <=>
            (lastPrune[k].prim - lastPrune[k].lb) * 100 > 99 * lastPrune[k].lb

\* C9 amended: a row visited by the pruning scan is deleted exactly when
\* its slack exceeds the constant 0.99, whatever its bound; the rows left
\* are those not deleted, followed by the new row.
C9_PruneByAbsoluteSlack ==
    /\ \A k \in 1..Len(lastPrune) :
          lastPrune[k].deleted <=>
              (lastPrune[k].prim - lastPrune[k].lb) * 100 > 99 * Den
    /\ constraintsEver > 0 =>
          Len(lpRows) = 1 + Cardinality({k \in 1..Len(lastPrune) : ~lastPrune[k].deleted})

\* A pruning scan that deleted a row.
C9_Witness ==
    /\ Len(lastPrune) >= 1
    /\ lastPrune[1].deleted
    /\ Len(lpRows) = 1

\* C10: getLPVar(x, y) throws exactly when x = y or an index is >= nQP;
\* otherwise it returns 1 + min + max*(max-1)/2, a value in 1..nLP.
C10_GetLPVarErrors ==
    idx.op = "getLPVar" =>
        LET hi == Max2(idx.x, idx.y)
            lo == Min2(idx.x, idx.y)
        IN /\ ~idx.lp.ok <=> (idx.x = idx.y \/ idx.x >= nQP \/ idx.y >= nQP)
           /\ idx.lp.ok => /\ idx.lp.val = 1 + lo + (hi * (hi - 1)) \div 2
                           /\ idx.lp.val \in 1..nLP

\* A self-pair of an index past the last variable was refused.
C10_Witness ==
    /\ idx.op = "getLPVar"
    /\ idx.x = idx.y
    /\ idx.x >= nQP
    /\ nQP >= 2
    /\ ~idx.lp.ok

\* C11: for every v in 1..nLP getQPVars(v) returns a pair (x, y) with
\* 0 <= y < x < nQP whose packed index getLPVar(x, y) is v, and getQPVars
\* throws for v = 0 and for every v > nLP.
C11_PackedBijection ==
    idx.op = "getQPVars" =>
        /\ (1 <= idx.v /\ idx.v <= nLP) =>
              /\ idx.qp.ok
              /\ 0 <= idx.qp.y /\ idx.qp.y < idx.qp.x /\ idx.qp.x < nQP
              /\ getLPVar(idx.qp.x, idx.qp.y) = [ok |-> TRUE, val |-> idx.v]
        /\ (idx.v = 0 \/ idx.v > nLP) => ~idx.qp.ok

\* The last packed index of a solver with at least four variables was
\* unpacked to the pair (nQP-1, nQP-2).
C11_Witness ==
    /\ idx.op = "getQPVars"
    /\ nQP >= 4
    /\ idx.v = nLP
    /\ idx.qp = [ok |-> TRUE, x |-> nQP - 1, y |-> nQP - 2]

\* The first LP solve went on and the matrix of its point is PSD.
C12_FirstPointPSD ==
    /\ numSolves = 1
    /\ pc \notin {"exit1", "exit2"}
    /\ IsPSD(getMatrix, nQP)

\* Scenario A: three variables, every coefficient 1, constant 0.
C12_ScenarioAProblem ==
    /\ nQP = 3
    /\ \A ij \in PairsOf(nQP) : coeffs[ij] = 1
    /\ constantTerm = 0

C12_Inv ==
    /\ C12_FirstPointPSD =>
          /\ pc \in {"findcore", "complete", "doneComplete"}
          /\ lpRows = <<>>
          /\ constraintsEver = 0
          /\ succConstraintFail = 0
          /\ roundTries = 0
    /\ (C12_ScenarioAProblem /\ numSolves = 1 /\ lastLP.ret = "OK"
            /\ pc \notin {"exit1", "exit2"}) =>
          /\ currSol = [v \in 1..nLP |-> Den]
          /\ C12_FirstPointPSD
          /\ pc = "doneComplete" =>
                /\ bestSol = <<1, 1, 1>>
                /\ ProblemScore(nQP, coeffs, constantTerm, bestSol) = 3 * Den

C12_Step ==
    C12_FirstPointPSD =>
        /\ numSolves' = numSolves
        /\ lpRows' = lpRows
        /\ pc = "findcore" => pc' = "complete"
        /\ pc = "complete" => pc' = "doneComplete"

\* C12: when the point of the first LP solve has a PSD matrix, solve()
\* makes no second LP solve, adds no row, never reaches the rounding label
\* and ends at the complete label; for three variables with every
\* coefficient 1 and constant 0 the optimal point is all ones and bestSol
\* ends as (1, 1, 1), of score 3.
C12_ScenarioA ==
    /\ []C12_Inv
    /\ [][C12_Step]_vars
    /\ (C12_FirstPointPSD ~> (pc = "doneComplete" /\ numSolves = 1))

\* Scenario A has ended at the complete label after one solve.
C12_Witness ==
    /\ C12_ScenarioAProblem
    /\ pc = "doneComplete"
    /\ numSolves = 1
    /\ numOracle = 1
    /\ lastLP.ret = "OK"
    /\ lpRows = <<>>
    /\ bestSol = <<1, 1, 1>>

C13_Inv ==
    pc = "doneFallback" =>
        /\ roundTries = MAX_TRIES_ROUNDING
        /\ bestSol = InitialBestSol(nQP)
        /\ lowerBound = InitialLowerBound(nQP, coeffs, constantTerm)

C13_Step ==
    /\ pc = "rounding" =>
          /\ roundTries' = 20
          /\ UNCHANGED <<bestSol, lowerBound, upperBound, currSol, lpRows>>
    /\ bestSol' # bestSol => pc = "complete"
    /\ lowerBound' = lowerBound

\* C13: the rounding label scores 20 candidate vectors and leaves bestSol,
\* lowerBound, upperBound, currSol and the LP rows as they were; after a
\* return through rounding bestSol and lowerBound are still the
\* constructor's, and bestSol is changed by no step but the one at the
\* complete label.
C13_RoundingFrame == []C13_Inv /\ [][C13_Step]_vars

\* solve() came back through rounding with a cut row in the LP and the
\* upper bound lowered.
C13_Witness ==
    /\ pc = "doneFallback"
    /\ roundTries = 20
    /\ Len(lpRows) >= 1
    /\ upperBound < InitialUpperBound(nQP, coeffs, constantTerm)
    /\ bestSol = InitialBestSol(nQP)

C14_Step ==
    /\ currSol' # currSol =>
          /\ pc = "solve"
          /\ numSolves' = numSolves + 1
          /\ currSol' = lastLP'.x
    /\ (pc = "findcore" /\ succConstraintFail' = succConstraintFail + 1) =>
          /\ UNCHANGED <<currSol, lpRows, upperBound, constraintsEver, numSolves>>
          /\ succConstraintFail' < CONSTRAINT_FAIL_LIMIT => pc' = "findcore"

\* C14: currSol is changed only by a step that solves the LP, which sets
\* it to the point the solve reported; a pass through findcore that ends
\* in a cut failure leaves currSol, the LP rows and upperBound as they
\* were and, short of the limit, is followed by findcore again.
C14_RelaxationPointFrame == [][C14_Step]_vars

\* A cut failed after the second solve, with a row in the LP, and solve()
\* is back at findcore with the point of that solve.
C14_Witness ==
    /\ pc = "findcore"
    /\ succConstraintFail >= 1
    /\ numSolves = 2
    /\ Len(lpRows) = 1
    /\ currSol = lastLP.x

\* C15: the row a cut application adds carries, at position v, the cut's
\* v-th coefficient on the column getLPVar(core[x], core[y]) for
\* (x, y) = getQPVars(v); its columns are pairwise distinct and lie in
\* 1..nLP, and its lower bound is the cut's constant term.
C15_CutTranslation ==
    (pc = "solve" /\ Len(lastCut.constraint) # 0) =>
        LET core == lastCut.core
            con == lastCut.constraint
            m == Len(con) - 1
            row == lpRows[Len(lpRows)]
            col(v) == getLPVar(core[getQPVars(v).x + 1], core[getQPVars(v).y + 1])
        IN /\ row.lb = con[1] * Den
           /\ Len(row.ind) = m /\ Len(row.val) = m
           /\ \A v \in 1..m :
                 /\ getQPVars(v).ok
                 /\ col(v).ok
                 /\ row.ind[v] = col(v).val
                 /\ row.val[v] = con[v + 1]
                 /\ row.ind[v] \in 1..nLP
           /\ \A v, w \in 1..m : row.ind[v] = row.ind[w] => v = w

\* A cut over a core that is neither all the variables nor in increasing
\* order has been applied.
C15_Witness ==
    /\ pc = "solve"
    /\ nQP = 4
    /\ lastCut.core = <<3, 0, 2>>
    /\ lpRows[Len(lpRows)].ind = <<4, 6, 2>>

C16_Inv ==
    /\ succConstraintFail \in 0..CONSTRAINT_FAIL_LIMIT
    /\ oracleSinceSolve \in 0..5
    /\ pc = "solve" => succConstraintFail = 0
    /\ pc = "findcore" =>
          /\ succConstraintFail \in 0..4
          /\ succConstraintFail = oracleSinceSolve
    /\ pc = "rounding" =>
          /\ succConstraintFail = 5
          /\ oracleSinceSolve = 5

C16_Step ==
    /\ succConstraintFail' # succConstraintFail =>
          /\ pc = "findcore"
          /\ \/ /\ succConstraintFail' = succConstraintFail + 1
                /\ UNCHANGED <<lpRows, constraintsEver>>
             \/ /\ succConstraintFail' = 0
                /\ constraintsEver' = constraintsEver + 1
                /\ pc' = "solve"
    /\ constraintsEver' # constraintsEver => succConstraintFail' = 0
    /\ (pc = "solve" /\ pc' = "findcore") => succConstraintFail' = 0

\* C16: succConstraintFail is set to 0 by every cut applied and raised, by
\* one, only by a pass through findcore that applies none; it is 0 when
\* solve() comes to findcore from a solve, it is in 0..4 and equal to the
\* number of oracle calls since the last solve whenever solve() is at
\* findcore, and solve() is at rounding only with the counter and the
\* number of oracle calls since the last solve both at 5.
C16_FailureCounter == []C16_Inv /\ [][C16_Step]_vars

\* Four cut failures in a row after the second solve, one cut applied
\* before it.
C16_Witness ==
    /\ pc = "findcore"
    /\ succConstraintFail = 4
    /\ oracleSinceSolve = 4
    /\ numSolves = 2
    /\ constraintsEver = 1

\* C17: every run of solve() reaches an end: a return from the complete
\* label or from the rounding label, or a fatal exit.
C17_Termination ==
    <>(pc \in {"doneComplete", "doneFallback", "exit1", "exit2"})

\* What the passes of a call of nonPSDcore have done so far: the growth loop
\* has made one PSD test per row taken and at most nQP of them, taking rows
\* from a pool that is not empty; the shrink loop has removed the rows the
\* growth loop took from the first on, one per pass and each once, in the
\* order they were taken; a row put back stays in the core and a row not
\* put back stays out; and the core a shrink pass starts from is not PSD
\* and has at least two rows, so the matrix a pass builds is never empty.
C18_Inv ==
    /\ orcLog.growChecks <= nQP
    /\ orc.phase = "grow" =>
          /\ Len(orc.notInCore) >= 1
          /\ orcLog.growChecks = Len(orc.core)
          /\ orcLog.grown = <<>>
          /\ orcLog.removed = <<>>
    /\ (orc.phase \in {"shrink", "done"} /\ orcLog.grown # <<>>) =>
          /\ orcLog.growChecks = Len(orcLog.grown)
          /\ orc.largeMatSize = Len(orcLog.grown)
          /\ Len(orcLog.removed) = orc.iter
          /\ Len(orcLog.removed) <= Len(orcLog.grown)
          /\ Len(orcLog.reinserted) = Len(orcLog.removed)
          /\ \A i \in 1..Len(orcLog.removed) :
                /\ orcLog.removed[i] = orcLog.grown[i]
                /\ orcLog.reinserted[i] <=> orcLog.removed[i] \in Range(orc.core)
          /\ Len(orc.core) >= 2
          /\ ~IsPSD(getSubmatrix(orc.core), Len(orc.core))
    /\ orc.phase = "shrink" =>
          /\ Len(orcLog.removed) < Len(orcLog.grown)
          /\ orc.core[1] = orcLog.grown[Len(orcLog.removed) + 1]
    /\ (orc.phase = "done" /\ orcLog.grown # <<>>) =>
          orcLog.removed = orcLog.grown
    /\ (orc.phase = "done" /\ orcLog.grown = <<>>) =>
          /\ orc.core = <<>>
          /\ orcLog.growChecks = nQP
          /\ orcLog.removed = <<>>

\* C18: for n >= 1 a call of nonPSDcore returns, after at most n PSD tests
\* in the growth loop and exactly one in the shrink loop per row the growth
\* loop took, made in the order the rows were taken; a row put back is not
\* tested again, and the core is not PSD before every shrink pass.
C18_ShrinkOrder ==
    /\ []C18_Inv
    /\ (orc.phase # "idle") ~> (orc.phase = "done")

\* A call has returned a core after three shrink passes, one row removed
\* for good and two put back.
C18_Witness ==
    /\ orc.phase = "done"
    /\ Len(orcLog.grown) = 3
    /\ Len(orc.core) = 2
    /\ orcLog.removed = orcLog.grown
    /\ \E i \in 1..2 : orcLog.reinserted[i] /\ ~orcLog.reinserted[3 - i]

\* C19: when a cut is applied, the pruning loop visits the rows the LP had
\* from the highest index to the lowest, each once and against its own
\* primal value and bound, and deletes the row it is visiting and no other;
\* the rows left are those whose slack did not exceed the threshold, in
\* their order, and the cut's row is added after them, unexamined.
C19_PruningScanOrder ==
    lastCut # NoCut =>
        LET old     == lastCut.rowsBefore
            n       == Len(old)
            Slack(i) == PruneTest(old[i].prim, old[i].lb)
            keptIdx == SortedSeq({i \in 1..n : ~Slack(i)}, n)
            m       == Len(keptIdx)
        IN /\ Len(lastPrune) = n
           /\ \A k \in 1..n :
                 /\ lastPrune[k].i = n - k + 1
                 /\ lastPrune[k].prim = old[n - k + 1].prim
                 /\ lastPrune[k].lb = old[n - k + 1].lb
                 /\ lastPrune[k].deleted <=> Slack(n - k + 1)
           /\ Len(lpRows) = m + 1
           /\ \A j \in 1..m : lpRows[j] = old[keptIdx[j]]
           /\ lpRows[m + 1].lb = lastCut.constraint[1] * Den
           /\ lpRows[m + 1].val = Tail(lastCut.constraint)
           /\ lpRows[m + 1].prim = 0

\* A cut has been applied to an LP of three rows, the first and the third
\* slack and deleted, the second kept and now the first row.
C19_Witness ==
    /\ lastCut # NoCut
    /\ Len(lastCut.rowsBefore) = 3
    /\ PruneTest(lastCut.rowsBefore[1].prim, lastCut.rowsBefore[1].lb)
    /\ ~PruneTest(lastCut.rowsBefore[2].prim, lastCut.rowsBefore[2].lb)
    /\ PruneTest(lastCut.rowsBefore[3].prim, lastCut.rowsBefore[3].lb)
    /\ Len(lpRows) = 2
    /\ lpRows[1] = lastCut.rowsBefore[2]
    /\ lastPrune[1].deleted /\ ~lastPrune[2].deleted /\ lastPrune[3].deleted

\* The rows the growth loop took before the one that made the set non-PSD.
C20_LastPSDSet ==
    SubSeq(orcLog.grown, 1, Len(orcLog.grown) - 1)

\* C20: the row whose insertion made the accepted set non-PSD is in the core
\* nonPSDcore returns: the shrink loop tests it in its last pass, what is
\* left without it is part of the last set the growth loop found PSD, so
\* it is PSD and the row is put back.
C20_BreakingRowInCore ==
    (orc.phase \in {"shrink", "done"} /\ orcLog.grown # <<>>) =>
        LET L    == Len(orcLog.grown)
            last == orcLog.grown[L]
        IN /\ last \in Range(orc.core)
           /\ IsPSD(getSubmatrix(C20_LastPSDSet), L - 1)
           /\ \A i \in 1..Len(orcLog.removed) : orcLog.removed[i] = last <=> i = L
           /\ (orc.phase = "shrink" /\ orc.iter = L - 1) =>
                 /\ orc.core[1] = last
                 /\ Range(Tail(orc.core)) \subseteq Range(C20_LastPSDSet)
                 /\ IsPSD(getSubmatrix(Tail(orc.core)), Len(orc.core) - 1)
           /\ orc.phase = "done" =>
                 /\ Len(orcLog.removed) = L
                 /\ orcLog.reinserted[L]
                 /\ orc.core[Len(orc.core)] = last

\* A call has returned the second and the third of the three rows it took.
C20_Witness ==
    /\ orc.phase = "done"
    /\ Len(orcLog.grown) = 3
    /\ orc.core = <<orcLog.grown[2], orcLog.grown[3]>>
    /\ orcLog.reinserted = <<FALSE, TRUE, TRUE>>

====
